---- MODULE Spec2Model ----
(***************************************************************************)
(* Lifecycle of one RedisServer instance (src/RedisServer.js, the current  *)
(* revision, lines 1-436): the three flags, the process handle, the two    *)
(* remembered promises, the serial promise queue (PromiseQueue(1)) and the *)
(* listeners the open and close tasks hang on the spawned process.         *)
(*                                                                         *)
(* A step of the model is one run-to-completion piece of JavaScript: an    *)
(* open() or close() call, the delivery of one 'data' chunk, the delivery  *)
(* of one process 'close' notification, or the promise-queue continuation  *)
(* that settles the finished task and starts the next one.                 *)
(*                                                                         *)
(* open() and close() may be called in any state, also between the moment  *)
(* a process listener settles a task and the queue's continuation, where   *)
(* only a listener of the instance's own 'open', 'close' or 'stdout'       *)
(* events can make a call.  Calls made from inside an 'opening' or         *)
(* 'closing' listener, while the task that emits the event is still        *)
(* running, are not modelled.                                              *)
(*                                                                         *)
(* Spec is the instance used through the promises its methods return;      *)
(* SpecCallback is the instance whose methods are given callbacks, with    *)
(* the then and catch reactions of RedisServer#open and RedisServer#close  *)
(* as steps of their own; SpecPair is two instances in one host;           *)
(* SpecParse is the instance whose processes print a chunk drawn from all  *)
(* sequences of fragments RedisServer.parseData tells apart; SpecConfig is *)
(* the instance constructed from any argument RedisServer.parseConfig      *)
(* tells apart.                                                            *)
(***************************************************************************)
EXTENDS Integers, Sequences, FiniteSets, TLC

\* Bounds of the exploration.
MaxCalls == 4
MaxChunks == 2
MaxCallbackCalls == 2
MaxPairCalls == 3
MaxParseCalls == 3
MaxTokens == 2
MaxConfigCalls == 2
MaxLiveCalls == 3

VARIABLES
  isOpening,      \* server.isOpening
  isRunning,      \* server.isRunning
  isClosing,      \* server.isClosing
  process,        \* server.process: 0 is null, otherwise an index into procs
  openPromise,    \* server.openPromise: an index into promises
  closePromise,   \* server.closePromise: an index into promises
  promises,       \* every promise handed out by the instance, with its state
  promiseQueue,   \* server.promiseQueue: the tasks waiting for their turn
  task,           \* the task counted by promiseQueue.pendingPromises, or NoTask
  procs,          \* every process spawned so far, with its listeners
  events,         \* lifecycle events emitted so far, in order
  calls,          \* open()/close() calls made so far, in order
  envReady,       \* no process has failed to start or exited without a kill
  callbacks,      \* the callbacks given to open()/close(), with their invocations
  config,         \* server.config
  configOrPort,   \* the argument the constructor was given
  string,         \* the argument of RedisServer.parseData under study
  parsed,         \* what dataListener's last call of it returned, or that it threw
  peer,           \* the fields of a second instance of the class
  focus           \* which of the two instances the other variables describe

vars == <<isOpening, isRunning, isClosing, process, openPromise, closePromise,
          promises, promiseQueue, task, procs, events, calls, envReady,
          callbacks, config, configOrPort, string, parsed, peer, focus>>

\* ev tells a task settled inside a process listener from one that settled
\* within its own function.
NoTask == [kind |-> "none", p |-> 0, st |-> "none", code |-> 0, ev |-> FALSE]

Pending == [st |-> "pending", code |-> 0]

Resolved == [st |-> "resolved", code |-> 0]

----------------------------------------------------------------------------
(* RedisServer.parseData.  A chunk is a sequence of the fragments the      *)
(* regular expressions look for; the text between them is irrelevant.      *)
(*   "ready"      ... Ready to accept connections                          *)
(*   "maxfiles"   # Server can't set maximum open files to N because of OS *)
(*                error: ...                                               *)
(*   "inuse"      ... bind: Address already in use                         *)
(*   "denied"     ... bind: Permission denied                              *)
(*   "notlisten"  # Configured to not listen anywhere, exiting.            *)
(*   "fatal"      # Fatal error, can't open config file ...                *)
(*   "bare"       the word error or can't on a line that is not a '# ...'  *)
(*                line of the shape regExp.errorMessage looks for          *)
(*   "info"       a line with none of the above                            *)
(* Every fragment is on a line of its own.                                 *)

Tokens ==
  {"ready", "maxfiles", "inuse", "denied", "notlisten", "fatal", "bare", "info"}

\* The fragments in which regExp.terminalMessages[2] finds a match; in the
\* warning it is the word can't.
ErrWords == {"inuse", "denied", "notlisten", "fatal", "bare", "maxfiles"}

HasToken(chunk, t) == \E i \in 1..Len(chunk) : chunk[i] = t

\* string.replace(match, ''): drops the first occurrence of the warning.
RECURSIVE RemoveFirst(_, _)
RemoveFirst(chunk, t) ==
  IF chunk = <<>> THEN <<>>
  ELSE IF Head(chunk) = t THEN Tail(chunk)
  ELSE <<Head(chunk)>> \o RemoveFirst(Tail(chunk), t)

\* The documented order of the failure signals.
Rank(word) ==
  CASE word = "inuse" -> 1
    [] word = "denied" -> 2
    [] word = "notlisten" -> 3
    [] word \in {"fatal", "bare", "maxfiles"} -> 4

FirstErrWordInOrder(chunk) ==
  LET i == CHOOSE k \in 1..Len(chunk) :
             /\ chunk[k] \in ErrWords
             /\ \A j \in 1..Len(chunk) :
                  chunk[j] \in ErrWords => Rank(chunk[k]) <= Rank(chunk[j])
  IN chunk[i]

\* The leftmost match of /already\s+in\s+use|not\s+listen|error|denied|can't/.
FirstErrWord(chunk) ==
  LET i == CHOOSE k \in 1..Len(chunk) :
             /\ chunk[k] \in ErrWords
             /\ \A j \in 1..(k-1) : chunk[j] \notin ErrWords
  IN chunk[i]

ErrCodeGeneric(word) == -3

ErrCode(word) ==
  CASE word = "inuse" -> -1
    [] word = "denied" -> -2
    [] word = "notlisten" -> -3
    [] word = "fatal" -> -3
    [] word = "bare" -> -3
    [] word = "maxfiles" -> -3

NoResult == [kind |-> "null", code |-> 0]

\* A TypeError out of parseData: regExp.errorMessage.exec(string) is null.
Thrown == [kind |-> "throw", code |-> 0]

\* regExp.errorMessage.exec(string) finds a '# ... error' or "# can't ..." line.
ErrorLineFound(chunk) == HasToken(chunk, "fatal") \/ HasToken(chunk, "maxfiles")

ReadyFoundAlone(chunk) ==
  HasToken(chunk, "ready") /\ \A i \in 1..Len(chunk) : chunk[i] \notin ErrWords

\* regExp.terminalMessages[0].exec(string) is not null.
ReadyFound(chunk) == HasToken(chunk, "ready")

WarningNeverFound(chunk) == FALSE

\* regExp.terminalMessages[1].exec(string) is not null.
WarningFound(chunk) == HasToken(chunk, "maxfiles")

RECURSIVE parseData(_)
parseData(chunk) ==
  IF ReadyFound(chunk) THEN [kind |-> "ok", code |-> 0]
  ELSE IF WarningFound(chunk) THEN parseData(RemoveFirst(chunk, "maxfiles"))
  ELSE IF \E i \in 1..Len(chunk) : chunk[i] \in ErrWords
       THEN IF FirstErrWord(chunk) \in {"fatal", "bare", "maxfiles"}
               /\ ~ErrorLineFound(chunk)
            THEN Thrown
            ELSE [kind |-> "err", code |-> ErrCode(FirstErrWord(chunk))]
  ELSE NoResult

\* The chunks a process is taken to print.
Chunks == {<<"info">>, <<"ready">>, <<"inuse">>, <<"denied">>, <<"notlisten">>,
           <<"fatal">>, <<"maxfiles">>, <<"maxfiles", "fatal">>,
           <<"maxfiles", "ready">>}

\* Every chunk of up to MaxTokens fragments.
ParseChunks == UNION {[1..n -> Tokens] : n \in 1..MaxTokens}

----------------------------------------------------------------------------
(* RedisServer.parseConfig and RedisServer.parseFlags.  Null stands for    *)
(* null and undefined; a port, a path and an address are strings.  other   *)
(* is a property that is not part of RedisServer~Config.                   *)

Null == "null"

\* The target the constructor hands to parseConfig.
Defaults ==
  [bin |-> "redis-server", conf |-> Null, port |-> "6379", slaveof |-> Null,
   other |-> Null]

Source(type, value, bin, conf, port, slaveof, other) ==
  [type |-> type, value |-> value, bin |-> bin, conf |-> conf, port |-> port,
   slaveof |-> slaveof, other |-> other]

\* new RedisServer()
NoArgument == Source("undefined", Null, Null, Null, Null, Null, Null)

\* What the constructor may be given: nothing, a port as a number or as a
\* string, something that is no configuration at all, or an object.
Sources ==
  {NoArgument,
   Source("number", "6380", Null, Null, Null, Null, Null),
   Source("string", "6381", Null, Null, Null, Null, Null),
   Source("boolean", "true", Null, Null, Null, Null, Null)}
  \cup
  {Source("object", Null, bin, conf, port, slaveof, other) :
     bin \in {Null, "/opt/redis/redis-server"},
     conf \in {Null, "/etc/redis.conf"},
     port \in {Null, "6382"},
     slaveof \in {Null, "::1 6379"},
     other \in {Null, "fubar"}}

ConfNeverGiven(source) == FALSE

\* source.conf != null
ConfGiven(source) == source.conf # Null

parseConfig(source, target) ==
  IF source.type \in {"number", "string"}
  THEN [target EXCEPT !.port = source.value]
  ELSE IF source.type # "object"
  THEN target
  ELSE LET withBin == IF source.bin # Null
                      THEN [target EXCEPT !.bin = source.bin]
                      ELSE target
           withSlaveof == IF source.slaveof # Null
                          THEN [withBin EXCEPT !.slaveof = source.slaveof]
                          ELSE withBin
       IN IF ConfGiven(source)
          THEN [withBin EXCEPT !.conf = source.conf]
          ELSE IF source.port # Null
               THEN [withSlaveof EXCEPT !.port = source.port]
               ELSE withSlaveof

\* An element of the argument list is the sequence of words its template
\* joins with a space.
parseFlags(cfg) ==
  IF cfg.conf # Null
  THEN <<(<<cfg.conf>>)>>
  ELSE (IF cfg.port # Null THEN <<(<<"--port", cfg.port>>)>> ELSE <<>>)
       \o (IF cfg.slaveof # Null THEN <<(<<"--slaveof", cfg.slaveof>>)>> ELSE <<>>)

----------------------------------------------------------------------------
\* Nothing has been handed to parseData yet.
Unparsed == [kind |-> "unparsed", code |-> 0]

\* The fields of an instance as new RedisServer(source) leaves them.
Fresh(source) ==
  [isOpening |-> FALSE, isRunning |-> FALSE, isClosing |-> FALSE, process |-> 0,
   promises |-> <<Resolved, Resolved>>, openPromise |-> 1, closePromise |-> 2,
   promiseQueue |-> <<>>, task |-> NoTask, procs |-> <<>>, events |-> <<>>,
   calls |-> <<>>, envReady |-> TRUE,
   config |-> parseConfig(source, Defaults), configOrPort |-> source]

\* The fields of the instance in focus.
Me ==
  [isOpening |-> isOpening, isRunning |-> isRunning, isClosing |-> isClosing,
   process |-> process, promises |-> promises, openPromise |-> openPromise,
   closePromise |-> closePromise, promiseQueue |-> promiseQueue, task |-> task,
   procs |-> procs, events |-> events, calls |-> calls, envReady |-> envReady,
   config |-> config, configOrPort |-> configOrPort]

\* The instance in focus has the fields r.
Is(r) ==
  /\ isOpening = r.isOpening
  /\ isRunning = r.isRunning
  /\ isClosing = r.isClosing
  /\ process = r.process
  /\ promises = r.promises
  /\ openPromise = r.openPromise
  /\ closePromise = r.closePromise
  /\ promiseQueue = r.promiseQueue
  /\ task = r.task
  /\ procs = r.procs
  /\ events = r.events
  /\ calls = r.calls
  /\ envReady = r.envReady
  /\ config = r.config
  /\ configOrPort = r.configOrPort

\* No other instance in the host: nothing of it is in flight.
Alone == [task |-> NoTask]

\* The instance is constructed from the given argument, nothing called yet.
constructor(source) ==
  /\ Is(Fresh(source))
  /\ focus = 1
  /\ callbacks = <<>>
  /\ string = <<>>
  /\ parsed = Unparsed

Init == constructor(NoArgument) /\ peer = Alone

\* What no call and no notification of the instance in focus touches.
given == <<config, configOrPort, peer, focus>>

\* What only a chunk handed to parseData can change.
heard == <<string, parsed>>

\* resolve()/reject() of the promise a task returned to the queue; settling a
\* promise that is not pending any more does nothing.
Settle(t, p, st, code) ==
  IF t.p = p /\ t.st = "pending"
  THEN [t EXCEPT !.st = st, !.code = code, !.ev = TRUE]
  ELSE t

NewProc(p) ==
  [st |-> "live", by |-> p, kills |-> 0, dataListener |-> TRUE,
   onceClose |-> <<>>, chunks |-> 0, raised |-> 0, result |-> "none", code |-> 0,
   flags |-> parseFlags(config), exitListener |-> TRUE]

OpenSkipsIgnoringRunning(c) == c

\* The test an open task makes when its turn comes: it spawns nothing if a
\* close() has been called since, or if a server is running already.
OpenSkips(c) == c \/ isRunning

CloseSkipsIgnoringRunning(o) == o

\* The test a close task makes when its turn comes: it kills nothing if an
\* open() has been called since, or if no server is running.
CloseSkips(o) == o \/ ~isRunning

\* The function open() adds to the queue, run with the flags o (isOpening)
\* and c (isClosing) as they are when its turn comes.
OpenTask(p, o, c) ==
  IF OpenSkips(c)
  THEN /\ isOpening' = FALSE
       /\ isClosing' = c
       /\ task' = [kind |-> "open", p |-> p, st |-> "resolved", code |-> 0,
                  ev |-> FALSE]
       /\ UNCHANGED <<process, procs, events>>
  ELSE /\ isOpening' = o
       /\ isClosing' = c
       /\ events' = Append(events, [ev |-> "opening", pid |-> Len(procs) + 1])
       /\ procs' = Append(procs, NewProc(p))
       /\ process' = Len(procs) + 1
       /\ task' = [kind |-> "open", p |-> p, st |-> "pending", code |-> 0,
                  ev |-> FALSE]

\* The function close() adds to the queue.  With isRunning set and no process
\* handle, server.process.once throws inside the promise executor, which
\* rejects the promise.
CloseTask(p, o, c) ==
  IF CloseSkips(o)
  THEN /\ isClosing' = FALSE
       /\ isOpening' = o
       /\ task' = [kind |-> "close", p |-> p, st |-> "resolved", code |-> 0,
                  ev |-> FALSE]
       /\ UNCHANGED <<process, procs, events>>
  ELSE /\ isOpening' = o
       /\ isClosing' = c
       /\ events' = Append(events, [ev |-> "closing", pid |-> process])
       /\ UNCHANGED process
       /\ IF process = 0
          THEN /\ task' = [kind |-> "close", p |-> p, st |-> "rejected",
                          code |-> 0, ev |-> FALSE]
               /\ UNCHANGED procs
          ELSE /\ task' = [kind |-> "close", p |-> p, st |-> "pending",
                          code |-> 0, ev |-> FALSE]
               /\ procs' = [procs EXCEPT
                    ![process].onceClose =
                        Append(@, [act |-> "resolved", p |-> p, code |-> 0]),
                    ![process].kills = @ + 1]

\* What the log keeps of a call: the operation, the promise it returned and
\* that promise's state on return, and what the caller could see on entry:
\* the three flags (o, r, c), the process handle (proc) and whether its output
\* was still unclassified (fresh), the task in flight (tk) and the state of
\* the promise the previous call returned (prev), and the number of events
\* emitted before the call (nev).
CallRec(op, ret, st) ==
  [op |-> op, ret |-> ret, retst |-> st,
   o |-> isOpening, r |-> isRunning, c |-> isClosing,
   proc |-> process,
   fresh |-> (process # 0 /\ procs[process].dataListener),
   tk |-> task, nev |-> Len(events),
   prev |-> IF calls = <<>> THEN "none" ELSE promises[calls[Len(calls)].ret].st]

NeverAlreadyOpening == FALSE

\* open() hands back the promise of the open under way.
AlreadyOpening == isOpening

\* close() hands back the promise of the close under way.
AlreadyClosing == isClosing

ClosingOnOpenKept == isClosing

\* server.isClosing after the assignments at the head of open().
ClosingOnOpen == FALSE

\* server.isOpening after the assignments at the head of close().
OpeningOnClose == FALSE

ClosingOnExitKept == isClosing

\* server.isClosing after the process 'close' listener.
ClosingOnExit == FALSE

ExitListenerOnExitKept == TRUE

\* Whether exitListener is still on the host process 'exit' event after the
\* 'close' notification of the process it was added for.
ExitListenerOnExit == FALSE

RunningOnExitKept == isRunning

\* server.isRunning after the process 'close' listener.
RunningOnExit == FALSE

QueueAlwaysFree == TRUE

QueueSharedFree == task = NoTask /\ peer.task = NoTask

\* promiseQueue.add() runs the function it is given at once when no task
\* holds the queue's single slot (new PromiseQueue(1)).
QueueFree == task = NoTask

\* RedisServer.open(server).
StaticOpen ==
  /\ Len(calls) < MaxCalls
  /\ IF AlreadyOpening
     THEN /\ calls' = Append(calls, CallRec("open", openPromise,
                                             promises[openPromise].st))
          /\ UNCHANGED <<isOpening, isRunning, isClosing, process, openPromise,
                         closePromise, promises, promiseQueue, task, procs, events,
                         envReady>>
     ELSE LET p == Len(promises) + 1 IN
          /\ promises' = Append(promises, Pending)
          /\ openPromise' = p
          /\ calls' = Append(calls, CallRec("open", p, "pending"))
          /\ IF QueueFree
             THEN /\ OpenTask(p, TRUE, ClosingOnOpen)
                  /\ UNCHANGED promiseQueue
             ELSE /\ isOpening' = TRUE
                  /\ isClosing' = ClosingOnOpen
                  /\ promiseQueue' = Append(promiseQueue, [kind |-> "open", p |-> p])
                  /\ UNCHANGED <<task, process, procs, events>>
          /\ UNCHANGED <<isRunning, closePromise, envReady>>

\* RedisServer.close(server).
StaticClose ==
  /\ Len(calls) < MaxCalls
  /\ IF AlreadyClosing
     THEN /\ calls' = Append(calls, CallRec("close", closePromise,
                                             promises[closePromise].st))
          /\ UNCHANGED <<isOpening, isRunning, isClosing, process, openPromise,
                         closePromise, promises, promiseQueue, task, procs, events,
                         envReady>>
     ELSE LET p == Len(promises) + 1 IN
          /\ promises' = Append(promises, Pending)
          /\ closePromise' = p
          /\ calls' = Append(calls, CallRec("close", p, "pending"))
          /\ IF QueueFree
             THEN /\ CloseTask(p, OpeningOnClose, TRUE)
                  /\ UNCHANGED promiseQueue
             ELSE /\ isClosing' = TRUE
                  /\ isOpening' = OpeningOnClose
                  /\ promiseQueue' = Append(promiseQueue, [kind |-> "close", p |-> p])
                  /\ UNCHANGED <<task, process, procs, events>>
          /\ UNCHANGED <<isRunning, openPromise, envReady>>

\* RedisServer#open() without a callback: the promise of RedisServer.open.
Open == StaticOpen /\ UNCHANGED <<callbacks, given, heard>>

\* RedisServer#close() without a callback: the promise of RedisServer.close.
Close == StaticClose /\ UNCHANGED <<callbacks, given, heard>>

OpeningOnDataKept == isOpening

\* server.isOpening after dataListener has classified a chunk.
OpeningOnData == FALSE

\* No 'data' or 'close' notification is delivered between the settlement of a
\* task's promise and the queue's continuation (a microtask), of whichever
\* instance of the host.
Quiet ==
  /\ task.st \in {"none", "pending"}
  /\ peer.task.st \in {"none", "pending"}

\* server.process.stdout.removeListener('data', dataListener): takes the
\* listener of process pid off the process the instance holds.
Detach(pid) ==
  IF process = pid THEN [procs EXCEPT ![pid].dataListener = FALSE] ELSE procs

\* One chunk on the stdout of process pid: dataListener, if still attached,
\* then the listener that forwards the chunk as a 'stdout' event.  With no
\* process handle, server.process.stdout throws before anything is changed.
\* When dataListener throws, the forwarding listener is not reached.
Data(pid, chunk) ==
  /\ Quiet
  /\ procs[pid].st = "live"
  /\ procs[pid].chunks + procs[pid].raised < MaxChunks
  /\ LET result == IF procs[pid].dataListener THEN parseData(chunk) ELSE NoResult
         by == procs[pid].by
     IN
     CASE result.kind = "null" \/ process = 0 ->
            /\ procs' = [procs EXCEPT ![pid].chunks = @ + 1]
            /\ UNCHANGED <<isOpening, isRunning, isClosing, task, events, envReady>>
       [] result.kind = "throw" /\ process # 0 ->
            /\ procs' = [procs EXCEPT ![pid].raised = @ + 1]
            /\ UNCHANGED <<isOpening, isRunning, isClosing, task, events, envReady>>
       [] result.kind = "ok" /\ process # 0 ->
            /\ isOpening' = OpeningOnData
            /\ isRunning' = TRUE
            /\ events' = Append(events, [ev |-> "open", pid |-> pid])
            /\ task' = Settle(task, by, "resolved", 0)
            /\ procs' = [Detach(pid) EXCEPT ![pid].chunks = @ + 1,
                                            ![pid].result = "ok"]
            /\ UNCHANGED <<isClosing, envReady>>
       [] result.kind = "err" /\ process # 0 ->
            /\ isOpening' = OpeningOnData
            /\ isClosing' = TRUE
            /\ events' = Append(events, [ev |-> "closing", pid |-> pid])
            /\ procs' = [Detach(pid) EXCEPT
                 ![pid].chunks = @ + 1,
                 ![pid].result = "err",
                 ![pid].code = result.code,
                 ![process].onceClose =
                     Append(@, [act |-> "rejected", p |-> by, code |-> result.code])]
            /\ envReady' = FALSE
            /\ UNCHANGED <<isRunning, task>>
  /\ UNCHANGED <<process, openPromise, closePromise, promises, promiseQueue, calls,
                 callbacks, given>>

\* The once('close') listeners of a process, in the order they were added.
RECURSIVE RunOnceClose(_, _)
RunOnceClose(t, ls) ==
  IF ls = <<>> THEN t
  ELSE RunOnceClose(Settle(t, Head(ls).p, Head(ls).act, Head(ls).code), Tail(ls))

\* The 'close' notification of process pid: the listener added at spawn, then
\* the once('close') listeners.
Exit(pid) ==
  /\ Quiet
  /\ procs[pid].st = "live"
  /\ process' = 0
  /\ isRunning' = RunningOnExit
  /\ isClosing' = ClosingOnExit
  /\ events' = Append(events, [ev |-> "close", pid |-> pid])
  /\ task' = RunOnceClose(task, procs[pid].onceClose)
  /\ procs' = [procs EXCEPT ![pid].st = "exited", ![pid].dataListener = FALSE, ![pid].chunks = 0,
                            ![pid].raised = 0,
                            ![pid].exitListener = ExitListenerOnExit,
                            ![pid].onceClose = <<>>]
  /\ envReady' = (envReady /\ procs[pid].kills > 0)
  /\ UNCHANGED <<isOpening, openPromise, closePromise, promises, promiseQueue, calls,
                 callbacks, given, heard>>

\* PromiseQueue: the continuation of a settled task settles the promise add()
\* returned and calls _dequeue(), which starts the next task at once.
Handoff ==
  /\ task.st \in {"resolved", "rejected"}
  /\ promises' = [promises EXCEPT ![task.p] = [st |-> task.st, code |-> task.code]]
  /\ IF promiseQueue = <<>>
     THEN /\ task' = NoTask
          /\ UNCHANGED <<isOpening, isClosing, process, procs, events, promiseQueue>>
     ELSE /\ promiseQueue' = Tail(promiseQueue)
          /\ IF Head(promiseQueue).kind = "open"
             THEN OpenTask(Head(promiseQueue).p, isOpening, isClosing)
             ELSE CloseTask(Head(promiseQueue).p, isOpening, isClosing)
  /\ UNCHANGED <<isRunning, openPromise, closePromise, calls, envReady, callbacks,
                 given, heard>>

DataStep ==
  \E pid \in 1..Len(procs) : \E chunk \in Chunks :
    Data(pid, chunk) /\ UNCHANGED heard

ExitStep == \E pid \in 1..Len(procs) : Exit(pid)

Next == Open \/ Close \/ DataStep \/ ExitStep \/ Handoff

Spec == Init /\ [][Next]_vars

----------------------------------------------------------------------------
(* RedisServer#open(callback) and RedisServer#close(callback):             *)
(*   promise.then((v) => callback(null, v)).catch((e) => callback(e, null)) *)

\* What the argument given as callback does: "none" is not a function,
\* "returns" returns normally, "throws" throws whenever it is invoked.
Callbacks == {"none", "returns", "throws"}

\* The chain hung on promise p for a callback: the reaction that runs next
\* (stage), the error the catch reaction is to receive (e), the invocations
\* of the callback so far (log) and the state of the promise the method
\* returns (out).
NewCallback(cb, p) ==
  [call |-> Len(calls) + 1, p |-> p, cb |-> cb, stage |-> "then", e |-> "none",
   log |-> <<>>, out |-> "pending"]

\* callback(null, v) and callback(e, null); v is always null.
Invocation(e) == [err |-> e, res |-> "null"]

\* RedisServer#open(callback).
OpenCallback ==
  /\ Len(calls) < MaxCallbackCalls
  /\ StaticOpen
  /\ \E cb \in Callbacks :
       callbacks' = IF cb = "none" THEN callbacks
                    ELSE Append(callbacks, NewCallback(cb, calls'[Len(calls')].ret))
  /\ UNCHANGED <<given, heard>>

\* RedisServer#close(callback).
CloseCallback ==
  /\ Len(calls) < MaxCallbackCalls
  /\ StaticClose
  /\ \E cb \in Callbacks :
       callbacks' = IF cb = "none" THEN callbacks
                    ELSE Append(callbacks, NewCallback(cb, calls'[Len(calls')].ret))
  /\ UNCHANGED <<given, heard>>

\* The reaction .then((v) => callback(null, v)) once the promise has settled:
\* a rejection is passed on to the catch, a resolution invokes the callback,
\* whose exception rejects the promise the catch hangs on.
ThenReaction(k) ==
  /\ callbacks[k].stage = "then"
  /\ promises[callbacks[k].p].st # "pending"
  /\ LET c == callbacks[k] IN
     callbacks' = [callbacks EXCEPT ![k] =
       IF promises[c.p].st = "rejected"
       THEN [c EXCEPT !.stage = "catch", !.e = "operation"]
       ELSE IF c.cb = "throws"
       THEN [c EXCEPT !.stage = "catch", !.e = "callback",
                      !.log = Append(@, Invocation("null"))]
       ELSE [c EXCEPT !.stage = "done", !.out = "resolved",
                      !.log = Append(@, Invocation("null"))]]
  /\ UNCHANGED <<isOpening, isRunning, isClosing, process, openPromise,
                 closePromise, promises, promiseQueue, task, procs, events, calls,
                 envReady, given, heard>>

\* The reaction .catch((e) => callback(e, null)) on a rejection.
CatchReaction(k) ==
  /\ callbacks[k].stage = "catch"
  /\ LET c == callbacks[k] IN
     callbacks' = [callbacks EXCEPT ![k] =
       [c EXCEPT !.stage = "done",
                 !.out = IF c.cb = "throws" THEN "rejected" ELSE "resolved",
                 !.log = Append(@, Invocation(c.e))]]
  /\ UNCHANGED <<isOpening, isRunning, isClosing, process, openPromise,
                 closePromise, promises, promiseQueue, task, procs, events, calls,
                 envReady, given, heard>>

ThenStep == \E k \in 1..Len(callbacks) : ThenReaction(k)

CatchStep == \E k \in 1..Len(callbacks) : CatchReaction(k)

NextCallback ==
  OpenCallback \/ CloseCallback \/ DataStep \/ ExitStep \/ Handoff \/ ThenStep
    \/ CatchStep

\* The instance used with callbacks.
SpecCallback == Init /\ [][NextCallback]_vars

----------------------------------------------------------------------------
(* Two instances in one host, both constructed without an argument and so  *)
(* for the same port.  The instance variables describe the instance in     *)
(* focus and peer holds the fields of the other one; Swap turns to the     *)
(* other instance, so that every call and every notification is one of     *)
(* either instance.                                                        *)

Becomes(r) ==
  /\ isOpening' = r.isOpening
  /\ isRunning' = r.isRunning
  /\ isClosing' = r.isClosing
  /\ process' = r.process
  /\ promises' = r.promises
  /\ openPromise' = r.openPromise
  /\ closePromise' = r.closePromise
  /\ promiseQueue' = r.promiseQueue
  /\ task' = r.task
  /\ procs' = r.procs
  /\ events' = r.events
  /\ calls' = r.calls
  /\ envReady' = r.envReady
  /\ config' = r.config
  /\ configOrPort' = r.configOrPort

Swap ==
  /\ focus' = 3 - focus
  /\ peer' = Me
  /\ Becomes(peer)
  /\ UNCHANGED <<callbacks, heard>>

OpenPair == Len(calls) + Len(peer.calls) < MaxPairCalls /\ Open

ClosePair == Len(calls) + Len(peer.calls) < MaxPairCalls /\ Close

NextPair == OpenPair \/ ClosePair \/ DataStep \/ ExitStep \/ Handoff \/ Swap

InitPair == constructor(NoArgument) /\ peer = Fresh(NoArgument)

SpecPair == InitPair /\ [][NextPair]_vars

----------------------------------------------------------------------------
(* RedisServer.parseData applied by dataListener to one string: any chunk  *)
(* of up to MaxTokens fragments, chosen at the start, which is what the    *)
(* processes of the instance print, any number of times.                   *)

InitParse ==
  /\ Is(Fresh(NoArgument))
  /\ peer = Alone
  /\ focus = 1
  /\ callbacks = <<>>
  /\ string \in ParseChunks
  /\ parsed = Unparsed

DataParse ==
  \E pid \in 1..Len(procs) :
    /\ Data(pid, string)
    /\ parsed' = IF procs[pid].dataListener THEN parseData(string) ELSE parsed
    /\ UNCHANGED string

OpenParse == Len(calls) < MaxParseCalls /\ Open

CloseParse == Len(calls) < MaxParseCalls /\ Close

NextParse == OpenParse \/ CloseParse \/ DataParse \/ ExitStep \/ Handoff

SpecParse == InitParse /\ [][NextParse]_vars

----------------------------------------------------------------------------
(* The instance constructed from any of the arguments in Sources.          *)

InitConfig == peer = Alone /\ \E source \in Sources : constructor(source)

OpenConfig == Len(calls) < MaxConfigCalls /\ Open

CloseConfig == Len(calls) < MaxConfigCalls /\ Close

NextConfig == OpenConfig \/ CloseConfig \/ DataStep \/ ExitStep \/ Handoff

SpecConfig == InitConfig /\ [][NextConfig]_vars

----------------------------------------------------------------------------
(* The instance whose processes behave: a process prints a chunk that      *)
(* RedisServer.parseData classifies before it exits and at the latest as   *)
(* its last chunk, and a process that was classified as failed or that was *)
(* killed exits.  The queue's continuation, a microtask, always runs.      *)

\* Process pid has printed nothing classifiable yet.
Unclassified(pid) == procs[pid].st = "live" /\ procs[pid].result = "none"

Classifiable(chunk) == parseData(chunk).kind \in {"ok", "err"}

\* Process pid is bound to exit: its output was classified as a failure, or
\* it was killed.
Doomed(pid) ==
  procs[pid].st = "live" /\ (procs[pid].result = "err" \/ procs[pid].kills > 0)

DataLive ==
  \E pid \in 1..Len(procs) : \E chunk \in Chunks :
    /\ Unclassified(pid) /\ procs[pid].chunks + 1 = MaxChunks => Classifiable(chunk)
    /\ Data(pid, chunk) /\ UNCHANGED heard

ExitLive == \E pid \in 1..Len(procs) : ~Unclassified(pid) /\ Exit(pid)

OpenLive == Len(calls) < MaxLiveCalls /\ Open

CloseLive == Len(calls) < MaxLiveCalls /\ Close

NextLive == OpenLive \/ CloseLive \/ DataLive \/ ExitLive \/ Handoff

\* A process that has printed nothing classifiable does so.
Classify ==
  \E pid \in 1..Len(procs) : \E chunk \in Chunks :
    Unclassified(pid) /\ Classifiable(chunk) /\ Data(pid, chunk) /\ UNCHANGED heard

\* A process that is bound to exit does so.
ExitDoomed == \E pid \in 1..Len(procs) : Doomed(pid) /\ Exit(pid)

SpecLive ==
  /\ Init /\ [][NextLive]_vars
  /\ WF_vars(Handoff)
  /\ WF_vars(Classify)
  /\ WF_vars(ExitDoomed)

----------------------------------------------------------------------------
(* Vocabulary of the properties.                                           *)

Idle == ~isOpening /\ ~isRunning /\ ~isClosing

NothingPending == task = NoTask /\ promiseQueue = <<>>

AllSettled ==
  NothingPending /\ \A i \in 1..Len(promises) : promises[i].st # "pending"

Live == {pid \in 1..Len(procs) : procs[pid].st = "live"}

LastCall == calls[Len(calls)]

\* The step is a call of op ("open" or "close").
CallStep(op) == Len(calls') = Len(calls) + 1 /\ calls'[Len(calls')].op = op

\* The step spawns a process.
Spawned == Len(procs') > Len(procs)

\* The step sends a kill.
Killed == \E pid \in 1..Len(procs) : procs'[pid].kills > procs[pid].kills

\* The processes spawned by the task of promise p, and the events of kind ev
\* emitted for them.
SpawnsBy(p) == {pid \in 1..Len(procs) : procs[pid].by = p}

EventsBy(ev, p) ==
  {k \in 1..Len(events) : events[k].ev = ev /\ events[k].pid \in SpawnsBy(p)}

----------------------------------------------------------------------------
\* C1 (as stated): in every reachable state at most one of isOpening,
\* isRunning and isClosing is true.
C1_AtMostOneFlag ==
  /\ ~(isOpening /\ isRunning)
  /\ ~(isOpening /\ isClosing)
  /\ ~(isRunning /\ isClosing)

\* C1 (amended): in every reachable state isOpening and isClosing are not
\* both true; isRunning may be true together with either of them.
C1_OpeningClosingExclusive == ~(isOpening /\ isClosing)

\* A server that is running and being closed: both flags are true.
C1_Witness ==
  /\ isRunning /\ isClosing /\ ~isOpening
  /\ process # 0 /\ procs[process].kills > 0

\* C2: a spawn happens only while no process handle is present, a spawn or a
\* kill starts only when no other task of the instance is still in flight,
\* and at most one spawned process is alive in every reachable state.
C2_OneProcessAtATime ==
  /\ [](Cardinality(Live) <= 1)
  /\ [][Spawned => process = 0 /\ task.st # "pending"]_vars
  /\ [][Killed => task.st # "pending"]_vars

\* A second process has been spawned after the first one exited, on an
\* instance that received calls without pause (a task had to wait).
C2_Witness ==
  /\ Len(procs) >= 2
  /\ procs[1].st = "exited" /\ procs[2].st = "live"
  /\ \E i \in 1..Len(calls) : calls[i].tk.st = "pending"

\* C3 (as stated): two open() calls with no close() between them, the second
\* issued before the signal of the first has settled, return the same signal.
C3_UnsettledOpensShareSignal ==
  \A i \in 1..(Len(calls) - 1) :
    calls[i].op = "open" /\ calls[i+1].op = "open" /\ calls[i+1].prev = "pending"
      => calls[i+1].ret = calls[i].ret

\* C3 (amended): two open() calls with no close() between them, the second
\* issued while isOpening is still true, return the same signal, which is
\* pending; the second call adds no task and changes nothing, so that the two
\* cause at most one spawn, one 'opening' and one 'open' event, and exactly
\* one spawn and one 'opening' when the first found the instance idle, with
\* exactly one 'open' once the signal has resolved.
C3_OpeningOpensShareSignal ==
  /\ [](\A i \in 1..(Len(calls) - 1) :
          calls[i].op = "open" /\ calls[i+1].op = "open" /\ calls[i+1].o
            => /\ calls[i+1].ret = calls[i].ret
               /\ calls[i+1].retst = "pending"
               /\ Cardinality(SpawnsBy(calls[i].ret)) <= 1
               /\ Cardinality(EventsBy("opening", calls[i].ret)) <= 1
               /\ Cardinality(EventsBy("open", calls[i].ret)) <= 1
               /\ (calls[i].tk = NoTask /\ ~calls[i].o /\ ~calls[i].r
                     => /\ Cardinality(SpawnsBy(calls[i].ret)) = 1
                        /\ Cardinality(EventsBy("opening", calls[i].ret)) = 1
                        /\ (promises[calls[i].ret].st = "resolved"
                              => Cardinality(EventsBy("open", calls[i].ret)) = 1)))
  /\ [][CallStep("open") /\ isOpening
          => UNCHANGED <<isOpening, isRunning, isClosing, process, openPromise,
                         promises, promiseQueue, task, procs, events>>]_vars

\* Two open() calls on an idle instance, the second before the process was
\* classified, and the shared signal has resolved.
C3_Witness ==
  /\ Len(calls) >= 2
  /\ calls[1].op = "open" /\ calls[2].op = "open" /\ calls[2].o
  /\ promises[calls[2].ret].st = "resolved"

\* C4: whenever close() is called while isClosing is true, the signal it
\* returns is still pending.
C4_ClosingReturnsPendingSignal ==
  \A i \in 1..Len(calls) :
    calls[i].op = "close" /\ calls[i].c => calls[i].retst = "pending"

\* C5: open() on a running instance with nothing pending spawns nothing,
\* emits nothing, resolves without error and leaves the process handle and
\* the three flags as they were.
C5_OpenWhenRunningIsNoOp ==
  [][CallStep("open") /\ isRunning /\ NothingPending
       => /\ ~Spawned /\ ~Killed
          /\ events' = events
          /\ task'.p = calls'[Len(calls')].ret /\ task'.st = "resolved"
          /\ UNCHANGED <<isOpening, isRunning, isClosing, process>>]_vars

\* open() has just returned on a running instance with nothing pending.
C5_Witness ==
  /\ calls # <<>>
  /\ LastCall.op = "open" /\ LastCall.r /\ LastCall.tk = NoTask
  /\ task.p = LastCall.ret

\* C6: close() on an idle instance with nothing pending sends no kill, emits
\* nothing, resolves without error and leaves the three flags false and the
\* process handle absent.
C6_CloseWhenIdleIsNoOp ==
  [][CallStep("close") /\ Idle /\ NothingPending
       => /\ ~Killed /\ ~Spawned
          /\ events' = events
          /\ task'.p = calls'[Len(calls')].ret /\ task'.st = "resolved"
          /\ Idle' /\ process' = 0]_vars

\* close() has just returned on an instance that had been started and stopped.
C6_Witness ==
  /\ calls # <<>>
  /\ LastCall.op = "close" /\ LastCall.tk = NoTask
  /\ ~LastCall.o /\ ~LastCall.r /\ ~LastCall.c
  /\ task.p = LastCall.ret
  /\ Len(procs) >= 1

\* The calls from position i on were made by the caller's own code, each
\* before the signal of the call before it had settled, and none of them from
\* inside a listener of the instance's events.
Unawaited(i) ==
  \A j \in (i + 1)..Len(calls) : calls[j].prev = "pending" /\ ~calls[j].tk.ev

NoListenerCalls == \A j \in 1..Len(calls) : ~calls[j].tk.ev

EventNames(from) == [k \in 1..(Len(events) - from) |-> events[from + k].ev]

TwoCycles ==
  <<"opening", "open", "closing", "close", "opening", "open", "closing", "close">>

\* The last four calls are open(), close(), open(), close(), the first of
\* them on an idle instance with nothing pending, none of them awaited.
FourCalls ==
  /\ Len(calls) >= 4
  /\ LET n == Len(calls) - 3 IN
     /\ calls[n].op = "open" /\ calls[n + 1].op = "close"
     /\ calls[n + 2].op = "open" /\ calls[n + 3].op = "close"
     /\ calls[n].tk = NoTask /\ ~calls[n].o /\ ~calls[n].r /\ ~calls[n].c
     /\ Unawaited(n)

\* C7: open(), close(), open(), close() issued on an idle instance without
\* awaiting, every process reporting ready: once all have settled the instance
\* is idle with no process handle and the events emitted since the first call
\* are opening, open, closing, close, opening, open, closing, close.
C7_FourCallsTwoCycles ==
  FourCalls /\ envReady /\ AllSettled
    => /\ Idle /\ process = 0 /\ Live = {}
       /\ EventNames(calls[Len(calls) - 3].nev) = TwoCycles

\* The four calls have been made and have all settled.
C7_Witness ==
  /\ FourCalls /\ envReady /\ AllSettled
  /\ Len(procs) = 2 /\ procs[2].st = "exited"

\* C8: with every process reporting ready and exiting only when killed, once
\* all calls have settled the instance is running with a process handle if
\* the last call was open(), and idle with no handle if it was close().
C8_LastCallWins ==
  calls # <<>> /\ envReady /\ AllSettled
    => IF LastCall.op = "open"
       THEN /\ isRunning /\ ~isOpening /\ ~isClosing
            /\ process # 0 /\ procs[process].st = "live"
            /\ procs[process].result = "ok"
       ELSE Idle /\ process = 0 /\ Live = {}

\* Calls that had to wait for one another have all settled, the last one an
\* open() that started a second process.
C8_Witness ==
  /\ Len(calls) >= 3 /\ LastCall.op = "open"
  /\ envReady /\ AllSettled
  /\ isRunning /\ process = 2
  /\ \E i \in 1..Len(calls) : calls[i].tk.st = "pending"

\* Call i is a close() made while an open is in flight: the process is
\* spawned and its output not classified yet.
CloseDuringOpen(i) ==
  /\ calls[i].op = "close" /\ calls[i].fresh
  /\ calls[i].tk.kind = "open" /\ calls[i].tk.st = "pending"

\* C9: a close() made while an open is in flight sends no kill before that
\* open has settled; if the open succeeds, the close has killed the process
\* and the process has exited by the time the close resolves; if the open
\* fails the process is never killed, and the close is never rejected.
\* (Calls made from inside a listener of the instance's events are left out:
\* an open() made from an 'open' listener turns the waiting close into a
\* no-op.)
C9_CloseWaitsForOpen ==
  \A i \in 1..Len(calls) :
    CloseDuringOpen(i) =>
      LET q == calls[i].tk.p
          pid == calls[i].proc
      IN
      /\ SpawnsBy(q) = {pid}
      /\ (promises[q].st = "pending" => procs[pid].kills = 0)
      /\ (promises[q].st = "rejected" => procs[pid].kills = 0)
      /\ promises[calls[i].ret].st # "rejected"
      /\ (NoListenerCalls /\ promises[q].st = "resolved"
            /\ promises[calls[i].ret].st = "resolved"
            => procs[pid].kills = 1 /\ procs[pid].st = "exited")

\* A close() made while an open was in flight has resolved after the open
\* succeeded.
C9_Witness ==
  \E i \in 1..Len(calls) :
    /\ CloseDuringOpen(i) /\ NoListenerCalls
    /\ promises[calls[i].tk.p].st = "resolved"
    /\ promises[calls[i].ret].st = "resolved"
    /\ procs[calls[i].proc].kills = 1

\* Call i is an open() made while a close is in flight: the kill is sent and
\* the exit not observed yet.
OpenDuringClose(i) ==
  /\ calls[i].op = "open" /\ calls[i].proc # 0
  /\ calls[i].tk.kind = "close" /\ calls[i].tk.st = "pending"

\* The task of promise p has had its turn.
Started(p) == promises[p].st # "pending" \/ task.p = p

\* C10: an open() made while a close is in flight spawns nothing before the
\* old process has exited and the close has settled; every spawn starts from
\* an instance with no handle, no live process and isRunning false; by the
\* time the open has had its turn a process has been spawned after the old
\* one, and no process spawned for the open is the old one.
\* (Calls made from inside a listener of the instance's events are left out
\* of the last but one part: a close() made from a 'close' listener turns the
\* waiting open into a no-op.)
C10_OpenWaitsForClose ==
  /\ [](\A i \in 1..Len(calls) :
          OpenDuringClose(i) =>
            LET p == calls[i].ret
                old == calls[i].proc
            IN
            /\ procs[old].kills > 0
            /\ \A pid \in SpawnsBy(p) :
                 /\ pid # old
                 /\ procs[old].st = "exited"
                 /\ promises[calls[i].tk.p].st = "resolved"
            /\ (NoListenerCalls /\ Started(p)
                  => \E pid \in 1..Len(procs) : pid > old))
  /\ [][Spawned => process = 0 /\ ~isRunning /\ Live = {}]_vars

\* An open() made while a close was in flight has spawned a new process.
C10_Witness ==
  \E i \in 1..Len(calls) :
    /\ OpenDuringClose(i)
    /\ SpawnsBy(calls[i].ret) # {}
    /\ procs[calls[i].proc].st = "exited"

----------------------------------------------------------------------------
\* The step rejects the promise of the open task in flight (reject(result.err)
\* in the once('close') listener the failure branch added).
OpenFails == task.kind = "open" /\ task.st = "pending" /\ task'.st = "rejected"

ClassifiedFailure(pid) == procs[pid].result = "none" /\ procs'[pid].result = "err"

\* The step delivers the exit notification of process pid.
Exited(pid) == procs[pid].st = "live" /\ procs'[pid].st = "exited"

\* The step is the queue's continuation of a failed open, no call having been
\* made since the exit notification rejected it.
FailureDelivered ==
  /\ task.kind = "open" /\ task.st = "rejected"
  /\ promises[task.p].st = "pending" /\ promises'[task.p].st = "rejected"
  /\ \A j \in 1..Len(calls) : calls[j].tk # task

\* C12: the step that classifies the output of an in-flight open as a failure
\* clears isOpening, sets isClosing and emits 'closing', the open staying
\* unsettled and the process alive; the exit notification of that process
\* clears isClosing and emits 'close'; once classified as failed the process
\* is never killed and no other event is emitted for it, so that it gets
\* exactly one 'closing' and then exactly one 'close' event; and isClosing is
\* false when the failure is handed to the caller of open().
\* (A call made from inside a 'close' listener, between the exit notification
\* and the delivery of the error, is left out of the last part.)
C12_FailureClosesThenIdle ==
  /\ [][\A pid \in 1..Len(procs) :
          ClassifiedFailure(pid)
            => /\ ~isOpening' /\ isClosing'
               /\ events' = Append(events, [ev |-> "closing", pid |-> pid])
               /\ procs'[pid].st = "live" /\ process' = pid
               /\ task.p = procs[pid].by /\ task'.st = "pending"]_vars
  /\ [][\A pid \in 1..Len(procs) :
          Exited(pid) /\ procs[pid].result = "err"
            => /\ ~isClosing' /\ ~isRunning' /\ process' = 0
               /\ events' = Append(events, [ev |-> "close", pid |-> pid])
               /\ task'.p = procs[pid].by /\ task'.st = "rejected"]_vars
  /\ [][\A pid \in 1..Len(procs) :
          procs[pid].result = "err" /\ events' # events
            /\ events'[Len(events')].pid = pid
            => Exited(pid) /\ events'[Len(events')].ev = "close"]_vars
  /\ [](\A pid \in 1..Len(procs) : procs[pid].result = "err" => procs[pid].kills = 0)
  /\ [][FailureDelivered => ~isClosing']_vars

\* A failed open has been delivered after its process was classified and
\* exited, with another call waiting behind it.
C12_Witness ==
  /\ Len(procs) >= 1 /\ procs[1].result = "err" /\ procs[1].st = "exited"
  /\ promises[procs[1].by].st = "rejected"
  /\ Len(calls) >= 2 /\ calls[2].tk.p = procs[1].by /\ calls[2].tk.st = "pending"

\* Every call so far is an open() made with nothing pending, each after the
\* signal of the one before it was rejected, and the last one has been
\* rejected too.
AwaitedFailingOpens ==
  /\ calls # <<>> /\ NothingPending
  /\ \A j \in 1..Len(calls) :
       /\ calls[j].op = "open" /\ calls[j].tk = NoTask
       /\ (j > 1 => calls[j].prev = "rejected")
  /\ promises[LastCall.ret].st = "rejected"

EventCount(ev) == Cardinality({k \in 1..Len(events) : events[k].ev = ev})

\* C13: no open task spawns more than one process; an open() made with
\* nothing pending after the previous call, an open(), was rejected returns a
\* new signal and spawns a new process with its own 'opening' event; and n
\* awaited failing open() calls leave n spawned processes, n 'opening', n
\* 'closing' and n 'close' events, and no 'open' event.
C13_FailedOpenNotRetried ==
  /\ [](\A p \in 1..Len(promises) : Cardinality(SpawnsBy(p)) <= 1)
  /\ [][CallStep("open") /\ calls # <<>> /\ NothingPending
          /\ LastCall.op = "open" /\ promises[LastCall.ret].st = "rejected"
          => /\ Spawned
             /\ LET p == calls'[Len(calls')].ret
                    pid == Len(procs')
                IN /\ promises[LastCall.ret].st = "rejected"
                   /\ p # LastCall.ret /\ p = Len(promises) + 1
                   /\ procs'[pid].by = p /\ procs'[pid].result = "none"
                   /\ process' = pid /\ task'.p = p /\ task'.st = "pending"
                   /\ events' = Append(events, [ev |-> "opening", pid |-> pid])]_vars
  /\ [](AwaitedFailingOpens
          => /\ Len(procs) = Len(calls)
             /\ EventCount("opening") = Len(calls)
             /\ EventCount("closing") = Len(calls)
             /\ EventCount("close") = Len(calls)
             /\ EventCount("open") = 0
             /\ \A pid \in 1..Len(procs) : procs[pid].kills = 0)

\* Two awaited open() calls have failed one after the other.
C13_Witness ==
  /\ AwaitedFailingOpens /\ Len(calls) >= 2
  /\ Len(procs) = 2 /\ procs[1].result = "err" /\ procs[2].result = "err"

\* C14: whenever the signal a close() call returned is resolved, the process
\* the instance held when close() was called has exited (calls made from
\* inside a listener of the instance's events left aside).
C14_CloseResolvedAfterExit ==
  NoListenerCalls =>
    \A i \in 1..Len(calls) :
      calls[i].op = "close" /\ calls[i].proc # 0
        /\ promises[calls[i].ret].st = "resolved"
        => procs[calls[i].proc].st = "exited"

\* The step resolves the promise of an open task: resolve(null) in
\* dataListener, or the task returning Promise.resolve(null).
OpenResolves == task' # task /\ task'.kind = "open" /\ task'.st = "resolved"

\* The instance is running a server that reported ready.
Ready ==
  /\ isRunning /\ process # 0
  /\ procs[process].st = "live" /\ procs[process].result = "ok"

C16_UnclassifiedExitFailsOpen ==
  [][\A pid \in 1..Len(procs) :
       Exited(pid) /\ procs[pid].result = "none"
         /\ task.p = procs[pid].by /\ task.st = "pending"
         => task'.st = "rejected"]_vars

\* Process pid is alive and none of its output has been classified.
Hung(pid) == procs[pid].st = "live" /\ procs[pid].result = "none"

\* C17: as long as a spawned process has neither produced classifiable output
\* nor exited, the open that spawned it is unsettled and holds the queue's
\* slot, no kill has been sent to the process, and every close() called
\* meanwhile is unsettled and waits in the queue.
C17_HungOpenBlocksClose ==
  \A pid \in 1..Len(procs) :
    Hung(pid) =>
      /\ process = pid /\ ~isRunning
      /\ task.kind = "open" /\ task.p = procs[pid].by /\ task.st = "pending"
      /\ promises[procs[pid].by].st = "pending"
      /\ procs[pid].kills = 0
      /\ \A i \in 1..Len(calls) :
           calls[i].op = "close" /\ calls[i].proc = pid
             => /\ promises[calls[i].ret].st = "pending"
                /\ \E k \in 1..Len(promiseQueue) :
                     /\ promiseQueue[k].kind = "close"
                     /\ promiseQueue[k].p = calls[i].ret

\* A process has printed as many unclassifiable chunks as the bound allows and
\* is still alive, and close() has been called since it was spawned.
C17_Witness ==
  \E pid \in 1..Len(procs) :
    /\ Hung(pid) /\ procs[pid].chunks = MaxChunks
    /\ \E i \in 1..Len(calls) : calls[i].op = "close" /\ calls[i].proc = pid

\* The names of the events emitted for process pid, in order.
Cycle(pid) ==
  LET sel == SelectSeq(events, LAMBDA e : e.pid = pid)
  IN [k \in 1..Len(sel) |-> sel[k].ev]

\* C18 (as stated): every 'close' event is preceded by a 'closing' event of
\* the same process.
C18_CloseAfterClosing ==
  \A k \in 1..Len(events) :
    events[k].ev = "close"
      => \E j \in 1..(k - 1) :
           events[j].ev = "closing" /\ events[j].pid = events[k].pid

\* C18 (amended): every event belongs to a spawned process and the events of
\* one process all come before those of the next; the events of a process
\* are 'opening', then 'open' if its output was classified as started, then
\* 'closing' if it was killed by a close or classified as failed, then
\* 'close' once it has exited.  A process that exits on its own, after
\* reporting ready or without any classified output, gets 'close' with no
\* 'closing'.
C18_EventsFollowCycles ==
  /\ \A k \in 1..Len(events) : events[k].pid \in 1..Len(procs)
  /\ \A k \in 1..Len(events) : \A l \in k..Len(events) :
       events[k].pid <= events[l].pid
  /\ \A pid \in 1..Len(procs) :
       Cycle(pid) =
         <<"opening">>
         \o (IF procs[pid].result = "ok" THEN <<"open">> ELSE <<>>)
         \o (IF procs[pid].kills > 0 \/ procs[pid].result = "err"
             THEN <<"closing">> ELSE <<>>)
         \o (IF procs[pid].st = "exited" THEN <<"close">> ELSE <<>>)
  /\ \A pid \in 1..Len(procs) :
       /\ procs[pid].kills <= 1
       /\ (procs[pid].kills > 0 => procs[pid].result = "ok")

\* A server that reported ready has exited on its own, and the next one was
\* started and stopped by calls.
C18_Witness ==
  /\ Len(procs) >= 2
  /\ procs[1].st = "exited" /\ procs[1].result = "ok" /\ procs[1].kills = 0
  /\ procs[2].st = "exited" /\ procs[2].kills = 1

\* C19: once the reactions of a call made with a callback have run, the
\* callback has been invoked exactly once, with (null, null) if the operation
\* succeeded and with (error, null) if it failed.
C19_CallbackInvokedOnce ==
  \A k \in 1..Len(callbacks) :
    callbacks[k].stage = "done"
      => callbacks[k].log =
           << Invocation(IF promises[callbacks[k].p].st = "resolved"
                         THEN "null" ELSE "operation") >>

\* C20: isOpening is true in every state in which a spawned process is alive
\* and its output has not been classified yet.
C20_OpeningUntilClassified ==
  \A pid \in 1..Len(procs) : Hung(pid) => isOpening

\* C21: isClosing is true in every state in which a process has been killed
\* and its exit notification has not fired yet.
C21_ClosingUntilExit ==
  \A pid \in 1..Len(procs) :
    procs[pid].st = "live" /\ procs[pid].kills > 0 => isClosing


----------------------------------------------------------------------------
\* Ready is defined for the instance in focus; this is the same of the other.
PeerReady ==
  /\ peer.isRunning /\ ~peer.isOpening /\ ~peer.isClosing
  /\ peer.process # 0
  /\ peer.procs[peer.process].st = "live"

\* The step is a call or a notification of the instance in focus.
OwnStep == focus' = focus

\* The last open() of the instance in focus was rejected with the given code.
OpenRejectedWith(code) ==
  /\ calls # <<>>
  /\ promises[openPromise] = [st |-> "rejected", code |-> code]

\* C22: no call, output chunk or exit notification of one instance changes a
\* field of the other instance, and what a call does is decided by the
\* fields of its own instance alone: open() on an idle instance with an empty
\* queue spawns at once and close() on a ready one kills at once, whatever
\* the other instance is doing.  In particular a ready instance stays ready,
\* with the same process, in every step of another instance, including the
\* steps in which that one fails with code -1.
C22_InstancesIndependent ==
  /\ [][OwnStep => peer' = peer]_vars
  /\ [][~OwnStep => peer' = Me /\ Me' = peer]_vars
  /\ [][OwnStep /\ CallStep("open") /\ Idle /\ NothingPending => Spawned]_vars
  /\ [][OwnStep /\ CallStep("close") /\ Ready /\ ~isClosing /\ NothingPending
        => Killed]_vars
  /\ [][OwnStep /\ PeerReady => PeerReady' /\ peer'.process = peer.process]_vars

\* The instance in focus was rejected with code -1 while the other instance,
\* opened before it, is still ready.
C22_Witness ==
  /\ OpenRejectedWith(-1)
  /\ Idle
  /\ PeerReady
  /\ peer.calls # <<>>


----------------------------------------------------------------------------
\* The step delivers a chunk of process pid.
Printed(pid) ==
  procs'[pid].chunks + procs'[pid].raised > procs[pid].chunks + procs[pid].raised

\* The step delivers a chunk of process pid to its dataListener.
Listened(pid) == Printed(pid) /\ procs[pid].dataListener

\* The fragments that mention error or can't.
ErrorVocabulary == {"fatal", "bare", "maxfiles"}

NoRejection == \A p \in 1..Len(promises) : promises[p].st # "rejected"

\* C23: a chunk with the ready signal is classified as success whatever else
\* it contains: dataListener marks the instance running, resolves the open and
\* adds no rejecting listener, and no open of an instance whose processes
\* print such a chunk is ever rejected.
C23_ReadyWins ==
  /\ [](HasToken(string, "ready") =>
          /\ parsed \in {Unparsed, [kind |-> "ok", code |-> 0]}
          /\ NoRejection)
  /\ [][\A pid \in 1..Len(procs) :
          Listened(pid) /\ HasToken(string, "ready") =>
            /\ parsed' = [kind |-> "ok", code |-> 0]
            /\ procs'[pid].result = "ok"
            /\ procs'[pid].onceClose = procs[pid].onceClose
            /\ isRunning' /\ ~isOpening'
            /\ task' = Settle(task, procs[pid].by, "resolved", 0)
            /\ envReady' = envReady]_vars

\* An open resolved on a chunk that holds the ready signal next to a line
\* with error vocabulary.
C23_Witness ==
  /\ HasToken(string, "ready")
  /\ \E t \in ErrorVocabulary : HasToken(string, t)
  /\ parsed.kind = "ok"
  /\ Ready
  /\ LastCall.op = "open"
  /\ promises[LastCall.ret] = Resolved


----------------------------------------------------------------------------
\* The chunk holds the max-open-files warning and, besides it, only
\* fragments of the given set and plain lines.
WarningWith(chunk, others) ==
  /\ HasToken(chunk, "maxfiles")
  /\ \A t \in others : HasToken(chunk, t)
  /\ \A i \in 1..Len(chunk) : chunk[i] \in {"maxfiles", "info"} \cup others

Failure(code) == [kind |-> "err", code |-> code]

\* C24: a chunk with nothing but the max-open-files warning is classified as
\* none: dataListener stays attached and changes nothing, and no open is
\* rejected on it; a chunk with that warning and a fatal line is classified as
\* a failure with code -3, which is the code every rejected open then carries.
C24_WarningIgnored ==
  /\ [](WarningWith(string, {}) =>
          /\ parsed \in {Unparsed, NoResult}
          /\ NoRejection
          /\ \A pid \in 1..Len(procs) : procs[pid].result = "none")
  /\ [](WarningWith(string, {"fatal"}) =>
          /\ parsed \in {Unparsed, Failure(-3)}
          /\ \A p \in 1..Len(promises) :
               promises[p].st = "rejected" => promises[p].code = -3)
  /\ [][\A pid \in 1..Len(procs) :
          Listened(pid) /\ WarningWith(string, {}) =>
            /\ parsed' = NoResult
            /\ procs'[pid].dataListener
            /\ UNCHANGED <<isOpening, isRunning, isClosing, process, task,
                           promises, events>>]_vars
  /\ [][\A pid \in 1..Len(procs) :
          Listened(pid) /\ WarningWith(string, {"fatal"}) =>
            /\ parsed' = Failure(-3)
            /\ procs'[pid].result = "err"
            /\ procs'[pid].code = -3]_vars

\* An open rejected with code -3 on a chunk that holds the warning and a
\* fatal line.
C24_Witness ==
  /\ WarningWith(string, {"fatal"})
  /\ parsed = Failure(-3)
  /\ OpenRejectedWith(-3)


----------------------------------------------------------------------------
\* C25: RedisServer.parseData returns for every chunk, either none or an
\* outcome, and so dataListener never throws.
C25_ClassifierTotal == parsed.kind \in {"unparsed", "null", "ok", "err"}


----------------------------------------------------------------------------
\* The failure signals and their documented codes.
Signals == {"inuse", "denied", "notlisten", "fatal"}

Documented(signal) ==
  CASE signal = "inuse" -> -1
    [] signal = "denied" -> -2
    [] signal = "notlisten" -> -3
    [] signal = "fatal" -> -3

\* The chunk holds the one signal and, besides it, only plain lines.
SingleSignal(chunk, signal) ==
  /\ HasToken(chunk, signal)
  /\ \A i \in 1..Len(chunk) : chunk[i] \in {signal, "info"}

NoSignal(chunk) == \A i \in 1..Len(chunk) : chunk[i] = "info"

\* C26: a chunk with a single failure signal is classified with the documented
\* code (-1 already in use, -2 Permission denied, -3 not listen anywhere,
\* -3 fatal error line), the rejecting listener dataListener adds carries that
\* code, and every open rejected on such a chunk is rejected with it; a chunk
\* with no signal is classified as none and rejects and resolves nothing.
C26_DocumentedCodes ==
  /\ [](\A signal \in Signals : SingleSignal(string, signal) =>
          /\ parsed \in {Unparsed, Failure(Documented(signal))}
          /\ \A p \in 1..Len(promises) :
               promises[p].st = "rejected" => promises[p].code = Documented(signal)
          /\ \A i \in 1..Len(calls) :
               /\ calls[i].op = "open"
               /\ \E pid \in SpawnsBy(calls[i].ret) :
                    procs[pid].st = "exited" /\ procs[pid].result = "err"
               /\ task.p # calls[i].ret
               => promises[calls[i].ret] =
                    [st |-> "rejected", code |-> Documented(signal)])
  /\ [](NoSignal(string) =>
          /\ parsed \in {Unparsed, NoResult}
          /\ NoRejection
          /\ \A pid \in 1..Len(procs) : procs[pid].result = "none")
  /\ [][\A pid \in 1..Len(procs) : \A signal \in Signals :
          Listened(pid) /\ SingleSignal(string, signal) =>
            /\ parsed' = Failure(Documented(signal))
            /\ procs'[pid].onceClose =
                 Append(procs[pid].onceClose,
                        [act |-> "rejected", p |-> procs[pid].by,
                         code |-> Documented(signal)])]_vars
  /\ [][\A pid \in 1..Len(procs) :
          Listened(pid) /\ NoSignal(string) =>
            /\ parsed' = NoResult
            /\ procs'[pid].dataListener
            /\ UNCHANGED <<isOpening, isRunning, isClosing, process, task,
                           promises, events>>]_vars

\* An open rejected with code -2 on a chunk whose only signal is
\* 'Permission denied'.
C26_Witness ==
  /\ SingleSignal(string, "denied")
  /\ parsed = Failure(-2)
  /\ OpenRejectedWith(-2)
  /\ Idle


----------------------------------------------------------------------------
\* The argument list of a process for a configuration file.
ConfOnly(conf) == <<(<<conf>>)>>

\* The argument list '--port <port>', then '--slaveof <slaveof>' if given.
PortThenSlaveof(port, slaveof) ==
  IF slaveof = Null
  THEN <<(<<"--port", port>>)>>
  ELSE <<(<<"--port", port>>), (<<"--slaveof", slaveof>>)>>

\* The configuration resolved from an object: what the object gives, else the
\* default.
Given(field) ==
  IF configOrPort[field] # Null THEN configOrPort[field] ELSE Defaults[field]

\* C27: an object given to the constructor with conf set resolves to its bin
\* and conf with the default port and no slaveof, and every process is spawned
\* with the argument list [conf]; an object without conf resolves to its bin,
\* port and slaveof, and every process is spawned with '--port <port>',
\* followed by '--slaveof <slaveof>' only if slaveof is set; a property that
\* is not part of the configuration is never copied.
C27_ConfExclusive ==
  /\ config.other = Null
  /\ configOrPort.type = "object" =>
       /\ config.bin = Given("bin")
       /\ IF configOrPort.conf # Null
          THEN /\ config.conf = configOrPort.conf
               /\ config.port = Defaults.port
               /\ config.slaveof = Defaults.slaveof
               /\ \A pid \in 1..Len(procs) :
                    procs[pid].flags = ConfOnly(configOrPort.conf)
          ELSE /\ config.conf = Null
               /\ config.port = Given("port")
               /\ config.slaveof = Given("slaveof")
               /\ \A pid \in 1..Len(procs) :
                    procs[pid].flags = PortThenSlaveof(config.port, config.slaveof)

\* A process spawned for an object that sets conf, port, slaveof and a
\* property that is no part of the configuration.
C27_Witness ==
  /\ configOrPort.type = "object"
  /\ configOrPort.conf # Null
  /\ configOrPort.port # Null
  /\ configOrPort.slaveof # Null
  /\ configOrPort.other # Null
  /\ process # 0
  /\ procs[process].flags = ConfOnly(configOrPort.conf)


----------------------------------------------------------------------------
\* The chunk holds failure signals of more than one kind, no ready signal and
\* no max-open-files warning.
SeveralSignals(chunk) ==
  /\ \A i \in 1..Len(chunk) : chunk[i] \in Signals \cup {"bare", "info"}
  /\ \E i, j \in 1..Len(chunk) :
       /\ chunk[i] \in Signals \cup {"bare"}
       /\ chunk[j] \in Signals \cup {"bare"}
       /\ chunk[i] # chunk[j]

\* The code of the signal that comes first in the documented order.
FirstDocumented(chunk) ==
  IF HasToken(chunk, "inuse") THEN -1
  ELSE IF HasToken(chunk, "denied") THEN -2
  ELSE -3

\* The signal that comes first in the text.
Leftmost(chunk) ==
  chunk[CHOOSE i \in 1..Len(chunk) :
          /\ chunk[i] # "info"
          /\ \A j \in 1..(i - 1) : chunk[j] = "info"]

\* C28 (as stated): a chunk with several failure signals is classified with
\* the code of the signal that is first in the documented order, wherever the
\* signals are in the text.
C28_FirstDocumentedWins ==
  SeveralSignals(string) => parsed \in {Unparsed, Failure(FirstDocumented(string))}

\* C28 (amended): a chunk with several failure signals is decided by the
\* signal that comes first in the text: its code for 'already in use',
\* 'Permission denied', 'not listen' and a '# ... error' line; for the word
\* error or can't outside such a line, code -3 if the chunk has a
\* '# ... error' line further on, and an exception otherwise.
C28_LeftmostWins ==
  SeveralSignals(string) =>
    parsed \in {Unparsed,
                IF Leftmost(string) \in Signals
                THEN Failure(Documented(Leftmost(string)))
                ELSE IF HasToken(string, "fatal") THEN Failure(-3) ELSE Thrown}

\* An open rejected with code -2 on a chunk that has 'Permission denied'
\* before 'Address already in use'.
C28_Witness ==
  /\ SeveralSignals(string)
  /\ Leftmost(string) = "denied"
  /\ HasToken(string, "inuse")
  /\ parsed = Failure(-2)
  /\ OpenRejectedWith(-2)


----------------------------------------------------------------------------
\* Process pid has been classified, as success or as failure.
Classified(pid) == procs[pid].result # "none"

\* The step forwards one chunk of process pid as a 'stdout' event.
StdoutEmitted(pid) ==
  /\ procs'[pid].chunks = procs[pid].chunks + 1
  /\ procs'[pid].raised = procs[pid].raised

\* C29: a chunk of a process that has been classified changes no flag, emits
\* no 'open' or 'closing' event, settles nothing and leaves the
\* classification as it is; and every chunk, before and after the
\* classification, is forwarded as exactly one 'stdout' event.
C29_OneClassificationPerProcess ==
  /\ [][\A pid \in 1..Len(procs) :
          Printed(pid) /\ Classified(pid) =>
            /\ UNCHANGED <<isOpening, isRunning, isClosing, process, events, task,
                           promises, promiseQueue, openPromise, closePromise>>
            /\ procs'[pid].result = procs[pid].result
            /\ procs'[pid].code = procs[pid].code
            /\ procs'[pid].onceClose = procs[pid].onceClose]_vars
  /\ [][\A pid \in 1..Len(procs) : Printed(pid) => StdoutEmitted(pid)]_vars


----------------------------------------------------------------------------
\* Call i was given a queue task of its own: promiseQueue.add returned it a
\* new promise.
OwnTask(i) ==
  /\ calls[i].ret > 2
  /\ \A j \in 1..(i - 1) : calls[j].ret # calls[i].ret

Settled(p) == promises[p].st # "pending"

\* The step settles promise p.
Settles(p) == ~Settled(p) /\ promises'[p].st # "pending"

\* The step is a call that is given no queue task.
Deduplicated == Len(calls') = Len(calls) + 1 /\ promises' = promises

\* C30: of two calls that were each given a queue task of their own, the
\* signal of the later one is settled only in a step after the one that
\* settled the signal of the earlier one; and a call that is given no task
\* returns the very signal of the last earlier call of the same operation
\* that was given one (the signal the constructor made, if there is none), so
\* that it sees that signal settle when that call does.
C30_SettledInInvocationOrder ==
  /\ [](\A j \in 1..Len(calls) : \A i \in 1..(j - 1) :
          Settled(calls[j].ret) /\ ~Settled(calls[i].ret)
            => ~(OwnTask(i) /\ OwnTask(j)))
  /\ [][promises' # promises =>
          \A j \in 1..Len(calls) : \A i \in 1..(j - 1) :
            Settles(calls[j].ret) /\ ~Settled(calls[i].ret)
              => ~(OwnTask(i) /\ OwnTask(j))]_vars
  /\ [][Deduplicated =>
          LET op == calls'[Len(calls')].op
              before == {i \in 1..Len(calls) : calls[i].op = op /\ OwnTask(i)}
          IN calls'[Len(calls')].ret =
               IF before = {} THEN (IF op = "open" THEN 1 ELSE 2)
               ELSE calls[CHOOSE i \in before : \A k \in before : k <= i].ret]_vars

\* An open(), a close() made while the open was in flight and a second
\* close() that returned the signal of the first, all settled.
C30_Witness ==
  /\ Len(calls) >= 3
  /\ calls[1].op = "open" /\ OwnTask(1)
  /\ calls[2].op = "close" /\ OwnTask(2) /\ calls[2].tk.st = "pending"
  /\ calls[3].op = "close" /\ calls[3].ret = calls[2].ret
  /\ Settled(calls[1].ret) /\ Settled(calls[2].ret)


----------------------------------------------------------------------------
\* The step runs the function a call of the given operation added to the
\* queue: within the call itself when the queue was free, in the queue's
\* continuation otherwise.
TaskStarts(op) == task'.kind = op /\ task'.p # task.p

\* isOpening and isClosing as the function finds them: a call has set its
\* own flag and cleared the other one before its function runs.
OpeningAtTurn == IF CallStep("open") THEN TRUE
                 ELSE IF CallStep("close") THEN FALSE ELSE isOpening

ClosingAtTurn == IF CallStep("close") THEN TRUE
                 ELSE IF CallStep("open") THEN FALSE ELSE isClosing

\* The function that started in this step did nothing but clear the flag of
\* its operation and resolve.
Skipped(op) ==
  /\ task'.st = "resolved" /\ task'.code = 0
  /\ isOpening' = (op # "open" /\ OpeningAtTurn)
  /\ isClosing' = (op # "close" /\ ClosingAtTurn)
  /\ UNCHANGED <<isRunning, process, procs, events>>

\* C31: an open task spawns when its turn comes unless isClosing or isRunning
\* is true at that moment, and a close task kills unless isOpening is true or
\* isRunning is false at that moment; a task that does not spawn, or kill,
\* resolves without error, clears the flag of its operation, emits no event
\* and changes nothing else.
C31_SkippedOnlyIfSuperseded ==
  /\ [][TaskStarts("open") =>
          IF ClosingAtTurn \/ isRunning
          THEN Skipped("open")
          ELSE /\ Spawned /\ ~Killed
               /\ task'.st = "pending"
               /\ process' = Len(procs')
               /\ isOpening' = OpeningAtTurn /\ isClosing' = ClosingAtTurn]_vars
  /\ [][TaskStarts("close") =>
          IF OpeningAtTurn \/ ~isRunning
          THEN Skipped("close")
          ELSE /\ Killed /\ ~Spawned
               /\ task'.st = "pending"
               /\ process' = process /\ procs'[process].kills = 1
               /\ isOpening' = OpeningAtTurn /\ isClosing' = ClosingAtTurn]_vars

\* An open task skipped at its turn because a close() had been called after
\* it, behind a close task that killed the process of the first open.
C31_Witness ==
  /\ task.kind = "open" /\ task.st = "resolved" /\ ~task.ev
  /\ isClosing /\ ~isOpening /\ ~isRunning
  /\ Len(procs) = 1 /\ procs[1].st = "exited" /\ procs[1].kills = 1
  /\ promiseQueue # <<>>


----------------------------------------------------------------------------
\* C32: in every state, isRunning true implies a process handle is present,
\* and isOpening, isRunning and isClosing all false implies that none is.
C32_FlagsMatchHandle ==
  /\ isRunning => process # 0
  /\ Idle => process = 0


----------------------------------------------------------------------------
\* The exitListener functions of the instance that are registered on the
\* host process 'exit' event, each named by the process it was added for.
ExitListeners == {pid \in 1..Len(procs) : procs[pid].exitListener}

\* C33: the instance has exactly one listener on the host process 'exit'
\* event while it holds a process handle, the one added for that process,
\* and none while it holds no handle.
C33_OneExitListenerPerHandle ==
  ExitListeners = IF process = 0 THEN {} ELSE {process}

\* The instance holds its second process, the first one having exited.
C33_Witness ==
  /\ Len(procs) >= 2
  /\ procs[1].st = "exited"
  /\ process = 2
  /\ Cardinality(ExitListeners) = 1


----------------------------------------------------------------------------
\* C34: when every process prints a classifiable chunk, every process
\* classified as failed exits and every killed process exits, then after the
\* last call every signal an open() or close() returned is settled and the
\* queue is empty with no task in flight, and stays so.
C34_EverythingSettles == <>[](AllSettled /\ NothingPending)

\* Three calls, the second and third made while the first was in flight,
\* all settled, with the queue empty and the process gone.
C34_Witness ==
  /\ Len(calls) = 3
  /\ calls[2].tk.st = "pending" /\ calls[3].tk.st = "pending"
  /\ calls[2].op # calls[3].op
  /\ AllSettled /\ NothingPending
  /\ Len(procs) >= 1 /\ procs[1].st = "exited"


----------------------------------------------------------------------------
\* The instance is idle after a process that was up and was never killed has
\* exited, and nothing is pending in the queue.
AfterOwnExit ==
  /\ Idle /\ process = 0 /\ NothingPending
  /\ procs # <<>>
  /\ procs[Len(procs)].st = "exited" /\ procs[Len(procs)].result = "ok"
  /\ procs[Len(procs)].kills = 0

\* C35: when the process of a running instance exits without having been
\* killed, it is the process held, the handle is cleared, all three flags are
\* false and one 'close' event is raised; a close() called in the idle state
\* that follows resolves at once with no kill, no event and no change of the
\* flags, and an open() called there spawns a new process at once.
C35_OwnExitLeavesIdle ==
  /\ [][\A pid \in 1..Len(procs) :
          (Exited(pid) /\ isRunning /\ procs[pid].kills = 0) =>
            /\ process = pid /\ process' = 0
            /\ Idle'
            /\ events' = Append(events, [ev |-> "close", pid |-> pid])]_vars
  /\ [][(AfterOwnExit /\ CallStep("close")) =>
          /\ task'.kind = "close" /\ task'.st = "resolved" /\ task'.code = 0
          /\ UNCHANGED <<procs, events, process, isOpening, isRunning, isClosing>>]_vars
  /\ [][(AfterOwnExit /\ CallStep("open")) =>
          /\ Spawned /\ process' = Len(procs')
          /\ procs'[process'].by = task'.p
          /\ isOpening' /\ task'.kind = "open" /\ task'.st = "pending"]_vars

\* A server that was up exited by itself; a close() then did nothing and an
\* open() after it started a second process.
C35_Witness ==
  /\ Len(calls) = 3
  /\ calls[1].op = "open" /\ calls[2].op = "close" /\ calls[3].op = "open"
  /\ Len(procs) = 2 /\ process = 2 /\ procs[2].st = "live"
  /\ procs[1].st = "exited" /\ procs[1].result = "ok" /\ procs[1].kills = 0
  /\ promises[calls[2].ret].st = "resolved"
  /\ ~\E i \in 1..Len(events) : events[i].ev = "closing"


----------------------------------------------------------------------------
\* Process pid printed a line classified as a failure and has not exited.
FailedLive(pid) == procs[pid].st = "live" /\ procs[pid].result = "err"

\* C36: as long as a process whose output was classified as a failure has not
\* exited, no kill has been sent to it, it is the process held, the instance
\* is closing and not running, the open that spawned it is unsettled and
\* holds the queue's slot, and every task waiting in the queue is unsettled.
C36_FailedStaysClosing ==
  \A pid \in 1..Len(procs) :
    FailedLive(pid) =>
      /\ procs[pid].kills = 0
      /\ process = pid
      /\ isClosing /\ ~isRunning
      /\ task.kind = "open" /\ task.p = procs[pid].by /\ task.st = "pending"
      /\ promises[task.p].st = "pending"
      /\ \A i \in 1..Len(promiseQueue) : promises[promiseQueue[i].p].st = "pending"

====
